---------------------------- MODULE Spec2Model ----------------------------
(***************************************************************************)
(* A model of genBagit.py: the export of an OpenStack Swift account into   *)
(* a BagIt directory.  main() builds the manifest (genManifest), downloads *)
(* the manifest's objects in batches (download / do_download), validates   *)
(* the data directory against the manifest, and merges the activity logs   *)
(* (genActivityLog).                                                       *)
(*                                                                         *)
(* Strings are TLA+ strings; a text file is the sequence of its lines      *)
(* without their line terminators.  Object names are drawn from alphabets  *)
(* without line terminators and double quotes, so that a line written is   *)
(* one line read and the csv readers never enter their quoted state.       *)
(***************************************************************************)
EXTENDS Integers, Sequences, FiniteSets, TLC

(***************************************************************************)
(* Program constants                                                       *)
(***************************************************************************)
FOLDER == "-FOLDER-"

\* the batch threshold of download(): "if len(objects_to_dl) > 1000"
BatchLimit == 1000

\* the index of the request identifier in an activity row: "i[5]"
RequestIdIndex == 5

TAB == "\t"

(***************************************************************************)
(* Bounds of the model                                                     *)
(***************************************************************************)
\* the most objects of the catalogue one container lists
MaxObjects == 2

(***************************************************************************)
(* Strings                                                                 *)
(***************************************************************************)
Char(s, i) == SubSeq(s, i, i)

StartsWith(s, p) == Len(p) <= Len(s) /\ SubSeq(s, 1, Len(p)) = p

\* the position of the first occurrence of the one-character string c in s,
\* 0 when there is none
IndexOf(s, c) ==
    IF \E i \in 1..Len(s) : Char(s, i) = c
    THEN CHOOSE i \in 1..Len(s) : Char(s, i) = c /\ \A j \in 1..(i - 1) : Char(s, j) # c
    ELSE 0

\* str.split(sep) for a one-character separator
RECURSIVE Split(_, _)
Split(s, sep) ==
    LET i == IndexOf(s, sep)
    IN  IF i = 0 THEN <<s>>
        ELSE <<SubSeq(s, 1, i - 1)>> \o Split(SubSeq(s, i + 1, Len(s)), sep)

\* hashlib.md5(bytes).hexdigest(), on the contents the model stores
MD5(bytes) ==
    CASE bytes = ""   -> "d41d8cd98f00b204e9800998ecf8427e"
      [] bytes = "x"  -> "9dd4e461268c8034f5c8564e155c67a6"
      [] bytes = "y"  -> "415290769594460e2e485922904f345d"
      [] OTHER        -> "3e44107170a520582ade522fa73c1d15"

(***************************************************************************)
(* genManifest: the segment-duplicate pattern and the manifest line        *)
(***************************************************************************)
\* the pattern without its end anchor: the marker and one more character
\* anywhere in the name
SegmentSearchUnanchored(o) ==
    \E i \in 1..Len(o) :
        /\ i + 4 <= Len(o)
        /\ SubSeq(o, i, i + 3) = "!CB_"
        /\ Char(o, i + 4) # "/"

\* re.compile(r'!CB_[^/]+$').search(o) is not None
SegmentSearch(o) ==
    \E i \in 1..Len(o) :
        /\ i + 4 <= Len(o)
        /\ SubSeq(o, i, i + 3) = "!CB_"
        /\ \A j \in (i + 4)..Len(o) : Char(o, j) # "/"

\* the listing's checksum, whatever the size
ManifestHvalListing(obj) == obj.hash

\* hval = obj['hash']; if obj['bytes'] is 0: hval = FOLDER
ManifestHval(obj) == IF obj.bytes = 0 THEN FOLDER ELSE obj.hash

\* 'data/{}/{}'.format(container_name, o)
ManifestPath(container_name, o) == "data/" \o container_name \o "/" \o o

\* '{}\t{}\n'.format(hval, path), without the line terminator
ManifestLine(container_name, obj) ==
    ManifestHval(obj) \o TAB \o ManifestPath(container_name, obj.name)

\* the same objects from the last of the listing to the first
ManifestObjectsReversed(objects) ==
    LET kept == SelectSeq(objects, LAMBDA obj : ~SegmentSearch(obj.name))
    IN  [i \in 1..Len(kept) |-> kept[Len(kept) + 1 - i]]

\* the objects genManifest's loop writes a line for, in listing order
ManifestObjects(objects) == SelectSeq(objects, LAMBDA obj : ~SegmentSearch(obj.name))

\* the lines one genManifest call appends
GenManifestLines(container_name, objects) ==
    LET kept == ManifestObjects(objects)
    IN  [i \in 1..Len(kept) |-> ManifestLine(container_name, kept[i])]

(***************************************************************************)
(* The manifest reader: unicode_csv_reader(manifest, dialect="excel-tab")  *)
(***************************************************************************)
\* one row of the reader: the cells of a line
CsvRow(line) == Split(line, TAB)

\* md5 = line[0]; filename = line[1]
LineMd5(line) == CsvRow(line)[1]
LineFilename(line) == CsvRow(line)[2]

(***************************************************************************)
(* download: the container pattern                                         *)
(***************************************************************************)
\* the pattern text 'data/{}/'.format(container) of group 1; the container
\* name is pasted into the pattern unescaped
ContainerPattern(container) == "data/" \o container \o "/"

\* one pattern character against one subject character: '.' is the regular
\* expression wildcard (any character but a newline), any other character
\* of the model's alphabets stands for itself
PatternChar(p, c) == IF p = "." THEN c # "\n" ELSE p = c

\* regexp.match(filename): group 1 at the start of filename, then '(.+)'
RegexpMatch(container, filename) ==
    LET pat == ContainerPattern(container)
    IN  /\ Len(filename) > Len(pat)
        /\ \A i \in 1..Len(pat) : PatternChar(Char(pat, i), Char(filename, i))
        /\ Char(filename, Len(pat) + 1) # "\n"

\* m.group(2): the greedy '.+', up to the end of the line
Group2(container, filename) ==
    LET from == Len(ContainerPattern(container)) + 1
        nl   == IndexOf(SubSeq(filename, from, Len(filename)), "\n")
    IN  IF nl = 0 THEN SubSeq(filename, from, Len(filename))
        ELSE SubSeq(filename, from, from + nl - 2)

\* a batch handed over as soon as it holds BatchLimit names
BatchFullAtLimit(batch) == Len(batch) >= BatchLimit

\* "if len(objects_to_dl) > 1000": the batch is handed to do_download
BatchFull(batch) == Len(batch) > BatchLimit

(***************************************************************************)
(* The data directory.  fs maps each path that exists to its node; a       *)
(* directory also exists when a path below it does.                        *)
(***************************************************************************)
FileNode(bytes) == [kind |-> "file", bytes |-> bytes]
DirNode == [kind |-> "dir", bytes |-> ""]

\* os.path.isfile(path)
IsFile(files, path) == path \in DOMAIN files /\ files[path].kind = "file"

\* os.path.isdir(path)
IsDir(files, path) ==
    \/ path \in DOMAIN files /\ files[path].kind = "dir"
    \/ \E q \in DOMAIN files : StartsWith(q, path \o "/")

\* os.path.exists(path)
Exists(files, path) == IsFile(files, path) \/ IsDir(files, path)

\* a component above path is a regular file: the case of the module
\* docstring, where the folder placeholder was downloaded as a file
Shadowed(files, path) ==
    \E i \in 1..Len(path) : Char(path, i) = "/" /\ IsFile(files, SubSeq(path, 1, i - 1))

\* files with one more node
WithNode(files, path, node) ==
    [q \in DOMAIN files \cup {path} |-> IF q = path THEN node ELSE files[q]]

\* os.makedirs(destination_directory), guarded by "if not os.path.exists"
MakeDirs(files, dir) == IF Exists(files, dir) THEN files ELSE WithNode(files, dir, DirNode)


(***************************************************************************)
(* State                                                                   *)
(***************************************************************************)
VARIABLES
    pc,               \* where main() stands
    opts,             \* the option flags of main(): noManifest, noFileDownload,
                      \* noValidate, noMD5, noLogDownload
    containerlist,    \* the containers main() selected
    swift,            \* the account: container name -> its object listing
    faults,           \* the object names whose transfer ends without a response
    fs,               \* the data directory
    manifest_exists,  \* os.path.isfile(FILENAME_MANIFEST)
    manifest,         \* the lines of FILENAME_MANIFEST
    pre,              \* the manifest file as main() found it
    written,          \* the lines this run appended to the manifest
    ci,               \* the index in containerlist of the loops of main()
    itemcounts,       \* genManifest's printed "# container: n items"
    lineno,           \* validation: the next manifest line
    objects_to_dl,    \* download(): the batch being filled
    count,            \* download(): the entries selected so far
    calls,            \* the do_download invocations so far: container, objects
    printed,          \* do_download(): the outcome lines printed
    manlength,        \* validation: filelines(FILENAME_MANIFEST)
    counter,          \* validation: the entries examined
    errors,           \* validation: the error count
    report,           \* validation: the ERROR messages printed
    summary,          \* validation: the error counts of the "Completed
                      \* validating content" lines printed
    bamf,             \* the activity log objects of the billing account, as
                      \* listed: name and lines
    li,               \* genActivityLog: the index of the next sorted object
    seen,             \* genActivityLog: the request identifiers written
    activity,         \* the lines of FILENAME_ACTIVITY
    logorder,         \* genActivityLog: the names of the objects fetched
    dl_iterator       \* the results of a bulk download given to do_download's
                      \* loop directly

vars == <<pc, opts, containerlist, swift, faults, fs, manifest_exists, manifest,
          pre, written, ci, itemcounts, lineno, objects_to_dl, count, calls,
          printed, manlength, counter, errors, report, summary,
          bamf, li, seen, activity, logorder, dl_iterator>>

logvars == <<bamf, li, seen, activity, logorder, dl_iterator>>

pipevars == <<containerlist, swift, faults, fs, manifest_exists, manifest, pre,
              written, ci, itemcounts, lineno, objects_to_dl, count, calls, printed, manlength, counter, errors, report, summary, dl_iterator>>

(***************************************************************************)
(* The inputs of a run                                                     *)
(***************************************************************************)
\* an object of a container listing, with the bytes a download delivers
Obj(name, bytes) ==
    [name |-> name, bytes |-> Len(bytes), hash |-> MD5(bytes), content |-> bytes]

\* the objects a container may list, in the name order of a Swift listing
Catalogue ==
    << Obj("a", "x"),
       Obj("a!CB_", "y"),
       Obj("a!CB_1", "x"),
       Obj("d", ""),
       Obj("d/a", "y"),
       Obj("s!CB_1/b", "x"),
       Obj("s!CB_1/b!CB_2", "y"),
       Obj("t\tu", "x"),
       Obj("z!CB_9", "") >>

\* the part of the catalogue the runs of the whole pipeline draw from
CoreCatalogue ==
    SelectSeq(Catalogue, LAMBDA obj : obj.name \in {"a", "a!CB_1", "d", "d/a", "t\tu"})

\* the listing that holds the objects of cat at the indices in S
RECURSIVE Pick(_, _, _)
Pick(cat, S, i) ==
    IF i > Len(cat) THEN <<>>
    ELSE (IF i \in S THEN <<cat[i]>> ELSE <<>>) \o Pick(cat, S, i + 1)

Listings(cat) ==
    { Pick(cat, S, 1) : S \in { T \in SUBSET (1..Len(cat)) : Cardinality(T) <= MaxObjects } }

\* the containers of the account, as swift.get_account() lists them
Containers == <<"a.b", "aXb">>

\* containerlist of main(): every container, or those of the download list
ContainerList(containers, useDownloadlist, downloadlist) ==
    SelectSeq(containers, LAMBDA c : ~useDownloadlist \/ c \in downloadlist)

\* the option flags: every combination of the manifest, download and
\* validation flags that behaves differently, with the logs skipped (-l), and
\* two runs that fetch the logs
Options ==
    { o \in [noManifest : BOOLEAN, noFileDownload : BOOLEAN, noValidate : BOOLEAN,
             noMD5 : BOOLEAN, noLogDownload : BOOLEAN] :
        /\ o.noValidate => ~o.noMD5
        /\ ~o.noLogDownload =>
               /\ o.noManifest = o.noFileDownload
               /\ o.noManifest = o.noValidate
               /\ ~o.noMD5 }

\* the paths an account's objects are downloaded to
ObjectPaths(account) ==
    UNION { { ManifestPath(c, account[c][i].name) : i \in 1..Len(account[c]) } :
            c \in DOMAIN account }

\* the bytes the account holds for a path
RemoteBytes(account, path) ==
    LET c == CHOOSE c \in DOMAIN account :
                 \E i \in 1..Len(account[c]) : ManifestPath(c, account[c][i].name) = path
        i == CHOOSE i \in 1..Len(account[c]) : ManifestPath(c, account[c][i].name) = path
    IN  account[c][i].content

\* a data directory that holds every object of the account that a file can
\* hold: a path below another object's path is left out
Mirror(account) ==
    LET paths == { p \in ObjectPaths(account) :
                     ~\E q \in ObjectPaths(account) : StartsWith(p, q \o "/") }
    IN  [p \in paths |-> FileNode(RemoteBytes(account, p))]

\* other bytes of the same length class
Corrupted(bytes) == IF bytes = "x" THEN "y" ELSE "x"

\* the data directories a run may find
LocalStates(account) ==
    LET m == Mirror(account)
    IN  {<<>>, m} \cup
        { [m EXCEPT ![p] = FileNode(Corrupted(m[p].bytes))] : p \in DOMAIN m }

\* the manifest of a full build of the account
RECURSIVE FullManifest(_, _, _)
FullManifest(account, list, i) ==
    IF i > Len(list) THEN <<>>
    ELSE GenManifestLines(list[i], account[list[i]]) \o FullManifest(account, list, i + 1)

\* a manifest line left by an earlier run
StaleLine == MD5("x") \o TAB \o ManifestPath("a.b", "old")

\* the manifest files a run may find
PreManifests(account, list) ==
    { [exists |-> FALSE, lines |-> <<>>],
      [exists |-> TRUE, lines |-> <<StaleLine>>],
      [exists |-> TRUE, lines |-> FullManifest(account, list, 1)] }


(***************************************************************************)
(* The bulk download of the storage client, as do_download uses it:        *)
(* ss.download(container, objects, options) with skip_identical, one       *)
(* result per object, taken in the order of the batch.                     *)
(***************************************************************************)
\* whether the account's container lists an object of this name
RemoteHas(account, container, o) ==
    /\ container \in DOMAIN account
    /\ \E i \in 1..Len(account[container]) : account[container][i].name = o

RemoteObject(account, container, o) ==
    account[container][CHOOSE i \in 1..Len(account[container]) :
                           account[container][i].name = o]

Result(success, o, response_dict, error) ==
    [success |-> success, object |-> o, response_dict |-> response_dict, error |-> error]

\* the result of one object of the batch, and the data directory after it
SsDownload(files, account, failing, container, o) ==
    LET path == ManifestPath(container, o)
    IN  IF o \in failing
        THEN [result |-> Result(FALSE, o, <<>>, "ClientException"), files |-> files]
        ELSE IF ~RemoteHas(account, container, o)
        THEN [result |-> Result(FALSE, o, [status |-> 404, reason |-> "Not Found"], "404"),
              files |-> files]
        ELSE LET obj == RemoteObject(account, container, o)
             IN  IF IsFile(files, path) /\ MD5(files[path].bytes) = obj.hash
                 THEN [result |-> Result(FALSE, o,
                                         [status |-> 304, reason |-> "Not Modified"], "304"),
                       files |-> files]
                 ELSE IF IsDir(files, path)
                 THEN [result |-> Result(FALSE, o, [status |-> 200, reason |-> "OK"],
                                         "IsADirectory"),
                       files |-> files]
                 ELSE IF Shadowed(files, path)
                 THEN [result |-> Result(TRUE, o, [status |-> 200, reason |-> "OK"], ""),
                       files |-> files]
                 ELSE [result |-> Result(TRUE, o, [status |-> 200, reason |-> "OK"], ""),
                       files |-> WithNode(files, path, FileNode(obj.content))]

(***************************************************************************)
(* do_download: the outcome printed for one result                         *)
(***************************************************************************)
\* a classification that knows the reason 'Not Modified' only
DoDownloadOutcomeNotModified(result) ==
    IF result.success THEN "OK"
    ELSE IF "reason" \notin DOMAIN result.response_dict THEN "Error"
    ELSE IF result.response_dict.reason = "Not Modified" THEN "Unmodified"
    ELSE "Failed"

DoDownloadOutcome(result) ==
    IF result.success THEN "OK"
    ELSE IF "reason" \notin DOMAIN result.response_dict THEN "Error"
    ELSE IF \/ result.response_dict.reason = "Not Modified"
            \/ result.response_dict.reason = "OK"
         THEN "Unmodified"
    ELSE "Failed"

\* the lines printed for one result
DoDownloadPrint(result) ==
    LET outcome == DoDownloadOutcome(result)
    IN  [outcome |-> outcome,
         object  |-> IF outcome = "Error" THEN "" ELSE result.object,
         text    |-> IF outcome = "Error" THEN <<result.error>>
                     ELSE IF outcome = "Failed"
                          THEN <<result.response_dict.status, result.response_dict.reason>>
                     ELSE <<>>]

\* a loop body that lets the failure of an object escape as an exception
DoDownloadBodyRaising(account, failing, container, objects, k, st) ==
    LET got == SsDownload(st.fs, account, failing, container, objects[k])
    IN  [st EXCEPT !.printed = Append(@, DoDownloadPrint(got.result)),
                   !.fs = got.files,
                   !.raised = IF DoDownloadOutcome(got.result) \in {"Failed", "Error"}
                              THEN "Exception" ELSE @]

\* the body of "for result in dl_iterator", for the object at index k of
\* the batch: the outcome is printed, whatever it is.  st holds the locals
\* of download(), the output so far and the data directory.
DoDownloadBody(account, failing, container, objects, k, st) ==
    LET got == SsDownload(st.fs, account, failing, container, objects[k])
    IN  [st EXCEPT !.printed = Append(@, DoDownloadPrint(got.result)),
                   !.fs = got.files]

\* the passes lo..hi of "for result in dl_iterator", in order; an exception
\* raised by a pass ends the loop
RECURSIVE DoDownloadLoop(_, _, _, _, _, _, _)
DoDownloadLoop(account, failing, container, objects, lo, hi, st) ==
    IF lo > hi THEN st
    ELSE IF lo = hi THEN DoDownloadBody(account, failing, container, objects, lo, st)
    ELSE LET mid == (lo + hi) \div 2
             left == DoDownloadLoop(account, failing, container, objects, lo, mid, st)
         IN  IF left.raised # "" THEN left
             ELSE DoDownloadLoop(account, failing, container, objects, mid + 1, hi, left)

\* do_download(container, objects, ...)
DoDownload(account, failing, container, objects, st) ==
    DoDownloadLoop(account, failing, container, objects, 1, Len(objects),
                   [st EXCEPT !.calls = Append(@, [container |-> container,
                                                   objects |-> objects])])

(***************************************************************************)
(* download(container)                                                     *)
(***************************************************************************)
\* the body of "for line in unicode_csv_reader(manifest, ...)": the entry is
\* added when the pattern matches, and a full batch is handed to do_download
DownloadBody(account, failing, container, line, st) ==
    LET row == CsvRow(line)
    IN  IF Len(row) < 2 THEN [st EXCEPT !.raised = "IndexError"]
        ELSE LET filename == row[2]
                 m == RegexpMatch(container, filename)
                 batch == IF m THEN Append(st.objects_to_dl, Group2(container, filename))
                          ELSE st.objects_to_dl
                 added == [st EXCEPT !.objects_to_dl = batch,
                                     !.count = IF m THEN @ + 1 ELSE @]
             IN  IF BatchFull(batch)
                 THEN [DoDownload(account, failing, container, batch, added)
                          EXCEPT !.objects_to_dl = <<>>]
                 ELSE added

\* the passes lo..hi of the loop over the manifest lines, in order
RECURSIVE DownloadLoop(_, _, _, _, _, _, _)
DownloadLoop(account, failing, container, lines, lo, hi, st) ==
    IF lo > hi THEN st
    ELSE IF lo = hi THEN DownloadBody(account, failing, container, lines[lo], st)
    ELSE LET mid == (lo + hi) \div 2
             left == DownloadLoop(account, failing, container, lines, lo, mid, st)
         IN  IF left.raised # "" THEN left
             ELSE DownloadLoop(account, failing, container, lines, mid + 1, hi, left)

\* download(container, ...): the destination directory is made, the
\* manifest is opened (io.open raises when there is none) and read, and what
\* is left in objects_to_dl after the loop is handed to do_download
Download(account, failing, container, exists, lines, st) ==
    LET made == [st EXCEPT !.fs = MakeDirs(@, "data/" \o container),
                           !.objects_to_dl = <<>>, !.count = 0]
    IN  IF ~exists THEN [made EXCEPT !.raised = "IOError"]
        ELSE LET read == DownloadLoop(account, failing, container, lines, 1, Len(lines), made)
             IN  IF read.raised # "" THEN read
                 ELSE IF Len(read.objects_to_dl) > 0
                      THEN DoDownload(account, failing, container, read.objects_to_dl, read)
                 ELSE read

(***************************************************************************)
(* Validation                                                              *)
(***************************************************************************)
\* filelines(fname): open() raises on a missing file, and "i" is unbound
\* after a loop over no lines
Filelines(exists, lines) ==
    IF ~exists THEN [raised |-> "IOError", value |-> 0]
    ELSE IF Len(lines) = 0 THEN [raised |-> "UnboundLocalError", value |-> 0]
    ELSE [raised |-> "", value |-> Len(lines)]

\* the if / elif chain of one manifest entry: "ok", "missing" or "mismatch".
\* The branch "if noMD5: pass" has an empty body and the checksum
\* comparison below it is not in its else: it runs in either mode, so noMD5
\* decides nothing here.
ValidateEntry(files, md5, filename, noMD5) ==
    IF IsDir(files, filename) THEN "ok"
    ELSE IF ~IsFile(files, filename) THEN "missing"
    ELSE IF md5 = FOLDER THEN "ok"
    ELSE LET d == MD5(files[filename].bytes)
         IN  IF d # md5 THEN "mismatch" ELSE "ok"

\* the ERROR message of an entry
ValidateMessage(files, verdict, md5, filename) ==
    IF verdict = "missing" THEN [kind |-> "missing", filename |-> filename,
                                 manifest |-> "", calculated |-> ""]
    ELSE [kind |-> "mismatch", filename |-> filename,
          manifest |-> md5, calculated |-> MD5(files[filename].bytes)]


(***************************************************************************)
(* genActivityLog                                                          *)
(***************************************************************************)
\* the header row of FILENAME_ACTIVITY
Fieldnames ==
    << "Account", "Container", "Time", "Remote IP", "Requester", "Request ID",
       "Operation", "Object", "Hash Algorithm", "Hash", "Request-URI",
       "HTTP Status", "Bytes Sent", "Byte Received", "Total Time" >>

\* the characters of the log object names, in code point order
NameAlphabet == "/0123456789abcdefghijklmnopqrstuvwxyz"

Ord(c) == IndexOf(NameAlphabet, c)

\* a < b for Python strings
RECURSIVE StrLess(_, _)
StrLess(a, b) ==
    IF Len(b) = 0 THEN FALSE
    ELSE IF Len(a) = 0 THEN TRUE
    ELSE IF Head(a) = Head(b) THEN StrLess(Tail(a), Tail(b))
    ELSE Ord(Head(a)) < Ord(Head(b))

\* s with x put behind the objects whose name is not greater
RECURSIVE InsertByName(_, _)
InsertByName(s, x) ==
    IF s = <<>> THEN <<x>>
    ELSE IF StrLess(x.name, s[Len(s)].name)
         THEN Append(InsertByName(SubSeq(s, 1, Len(s) - 1), x), s[Len(s)])
    ELSE Append(s, x)

\* the objects in the order of the listing
ListingOrder(objects) == objects

\* sorted(objects, key=lambda object: object['name'])
RECURSIVE SortedByName(_)
SortedByName(objects) ==
    IF objects = <<>> THEN <<>>
    ELSE InsertByName(SortedByName(SubSeq(objects, 1, Len(objects) - 1)),
                      objects[Len(objects)])

\* a cell without the blanks that follow the delimiter (skipinitialspace)
RECURSIVE SkipInitialSpace(_)
SkipInitialSpace(cell) ==
    IF Len(cell) > 0 /\ Head(cell) = " " THEN SkipInitialSpace(Tail(cell)) ELSE cell

\* one row of csv.reader(StringIO.StringIO(o), csv.excel): the cells of a
\* line; a blank line is a row without cells
ActivityRow(line) ==
    IF line = "" THEN <<>>
    ELSE LET cells == Split(line, ",")
         IN  [k \in 1..Len(cells) |-> SkipInitialSpace(cells[k])]

\* csvwriter.writerow(row), without the line terminator
RECURSIVE WriteRow(_)
WriteRow(row) ==
    IF Len(row) = 0 THEN ""
    ELSE IF Len(row) = 1 THEN row[1]
    ELSE row[1] \o "," \o WriteRow(Tail(row))

\* the rows of one log object: a row of more than RequestIdIndex cells is
\* written unless its request identifier is in seen.  The output lines and
\* seen, after the lines from index k on.
RECURSIVE ActivityRows(_, _, _, _)
ActivityRows(lines, k, out, ids) ==
    IF k > Len(lines) THEN [out |-> out, seen |-> ids]
    ELSE LET i == ActivityRow(lines[k])
         IN  IF Len(i) > RequestIdIndex /\ i[RequestIdIndex + 1] \notin ids
             THEN ActivityRows(lines, k + 1, Append(out, WriteRow(i)),
                               ids \cup {i[RequestIdIndex + 1]})
             ELSE ActivityRows(lines, k + 1, out, ids)

(***************************************************************************)
(* The initial states: main() after its option and configuration parsing   *)
(***************************************************************************)
\* the download lists of the configuration file
DownloadLists == { {"a.b"}, {"aXb"}, {"a.b", "aXb"}, {"other"} }

ContainerLists ==
    { ContainerList(Containers, u, d) : u \in BOOLEAN, d \in DownloadLists }

\* the accounts of the runs of the whole pipeline
Accounts ==
    { [c \in {"a.b", "aXb"} |-> IF c = "a.b" THEN l ELSE m] :
        l \in Listings(CoreCatalogue), m \in { <<>>, <<Obj("a", "y")>> } }

\* the most lines of an activity log object
MaxLogRows == 2

\* the lines an activity log object may hold: two rows of one request
\* identifier that differ in other cells, a row of another identifier, and
\* a row too short to have an identifier
LogLines ==
    { "a,c,t,ip,u,tx1,GET", "a, c, t, ip, u, tx1, PUT", "a,c,t,ip,u,tx2,GET",
      "short,row" }

LogContents == UNION { [1..k -> LogLines] : k \in 0..MaxLogRows }

\* the names of the log objects, in the order of the listing
LogNameLists ==
    { <<>>, <<"activities/1">>,
      <<"activities/10", "activities/2">>, <<"activities/2", "activities/10">> }

LogListing(names, contents) ==
    [k \in 1..Len(names) |-> [name |-> names[k], lines |-> contents[k]]]

LogListings ==
    UNION { { LogListing(names, f) : f \in [1..Len(names) -> LogContents] } :
            names \in LogNameLists }

\* the log objects of the runs of the whole pipeline
CoreLogListing ==
    LogListing(<<"activities/2", "activities/10">>,
               << <<"a,c,t,ip,u,tx1,GET">>, <<"a, c, t, ip, u, tx1, PUT", "short,row">> >>)

InitLocals ==
    /\ written = <<>>
    /\ ci = 1
    /\ itemcounts = <<>>
    /\ lineno = 1
    /\ objects_to_dl = <<>>
    /\ count = 0
    /\ calls = <<>>
    /\ printed = <<>>
    /\ manlength = 0
    /\ counter = 0
    /\ errors = 0
    /\ report = <<>>
    /\ summary = <<>>
    /\ li = 1
    /\ seen = {}
    /\ activity = <<>>
    /\ logorder = <<>>

Init ==
    /\ pc = "remove"
    /\ opts \in Options
    /\ containerlist \in ContainerLists
    /\ swift \in Accounts
    /\ faults \in IF opts.noFileDownload THEN { {} } ELSE { {}, {"a"} }
    /\ fs \in LocalStates(swift)
    /\ pre \in PreManifests(swift, containerlist)
    /\ manifest_exists = pre.exists
    /\ manifest = pre.lines
    /\ bamf = IF opts.noLogDownload THEN <<>> ELSE CoreLogListing
    /\ InitLocals
    /\ dl_iterator = <<>>

(***************************************************************************)
(* main(): the manifest                                                    *)
(***************************************************************************)
\* a manifest that is never removed
ShouldRemoveNever(exists, noManifest) == FALSE

\* "if os.path.isfile(FILENAME_MANIFEST): if not noManifest:": the manifest
\* file is removed
ShouldRemove(exists, noManifest) == exists /\ ~noManifest

\* the manifest of an earlier run is removed before the configuration is read
RemoveManifest ==
    /\ pc = "remove"
    /\ pc' = "manifest"
    /\ ci' = 1
    /\ IF ShouldRemove(manifest_exists, opts.noManifest)
       THEN manifest_exists' = FALSE /\ manifest' = <<>>
       ELSE UNCHANGED <<manifest_exists, manifest>>
    /\ UNCHANGED logvars
    /\ UNCHANGED <<opts, containerlist, swift, faults, fs, pre, written, itemcounts,
                   lineno, objects_to_dl, count, calls, printed, manlength,
                   counter, errors, report, summary>>

\* if noManifest: print '# NOT generating manifest'
SkipManifest ==
    /\ pc = "manifest"
    /\ opts.noManifest
    /\ pc' = "download"
    /\ ci' = 1
    /\ UNCHANGED logvars
    /\ UNCHANGED <<opts, containerlist, swift, faults, fs, manifest_exists, manifest,
                   pre, written, itemcounts, lineno, objects_to_dl, count, calls, printed, manlength, counter, errors, report, summary>>

\* genManifest(swift, container): one pass of "for container in containerlist"
GenManifest ==
    /\ pc = "manifest"
    /\ ~opts.noManifest
    /\ ci <= Len(containerlist)
    /\ LET container_name == containerlist[ci]
           objects == swift[container_name]
           lines == GenManifestLines(container_name, objects)
       IN  /\ manifest_exists' = TRUE
           /\ manifest' = manifest \o lines
           /\ written' = written \o lines
           /\ itemcounts' = Append(itemcounts, [container |-> container_name,
                                                linecount |-> Len(lines)])
    /\ ci' = ci + 1
    /\ UNCHANGED logvars
    /\ UNCHANGED <<pc, opts, containerlist, swift, faults, fs, pre, lineno,
                   objects_to_dl, count, calls, printed, manlength, counter,
                   errors, report, summary>>

\* a manifest loop left before its last container
ManifestDoneEarly ==
    /\ pc = "manifest"
    /\ ~opts.noManifest
    /\ ci > 1
    /\ pc' = "download"
    /\ ci' = 1
    /\ UNCHANGED logvars
    /\ UNCHANGED <<opts, containerlist, swift, faults, fs, manifest_exists, manifest,
                   pre, written, itemcounts, lineno, objects_to_dl, count, calls, printed, manlength, counter, errors, report, summary>>

\* the end of "for container in containerlist: genManifest(...)"
ManifestDone ==
    /\ pc = "manifest"
    /\ ~opts.noManifest
    /\ ci > Len(containerlist)
    /\ pc' = "download"
    /\ ci' = 1
    /\ UNCHANGED logvars
    /\ UNCHANGED <<opts, containerlist, swift, faults, fs, manifest_exists, manifest,
                   pre, written, itemcounts, lineno, objects_to_dl, count, calls, printed, manlength, counter, errors, report, summary>>


(***************************************************************************)
(* main(): the downloads                                                   *)
(***************************************************************************)
\* if noFileDownload: print '# NOT downloading account content'
SkipDownload ==
    /\ pc = "download"
    /\ opts.noFileDownload
    /\ pc' = "validate"
    /\ UNCHANGED logvars
    /\ UNCHANGED <<opts, containerlist, swift, faults, fs, manifest_exists, manifest,
                   pre, written, ci, itemcounts, lineno, objects_to_dl, count, calls,
                   printed, manlength, counter, errors, report, summary>>

\* download(container, ...): one pass of "for container in containerlist"
DownloadContainer ==
    /\ pc = "download"
    /\ ~opts.noFileDownload
    /\ ci <= Len(containerlist)
    /\ LET st == Download(swift, faults, containerlist[ci], manifest_exists, manifest,
                          [objects_to_dl |-> objects_to_dl, count |-> count,
                           calls |-> calls, printed |-> printed, fs |-> fs,
                           raised |-> ""])
       IN  /\ objects_to_dl' = st.objects_to_dl
           /\ count' = st.count
           /\ calls' = st.calls
           /\ printed' = st.printed
           /\ fs' = st.fs
           /\ pc' = IF st.raised = "" THEN "download" ELSE "crashed"
           /\ ci' = IF st.raised = "" THEN ci + 1 ELSE ci
    /\ UNCHANGED logvars
    /\ UNCHANGED <<opts, containerlist, swift, faults, manifest_exists, manifest, pre,
                   written, itemcounts, lineno, manlength, counter, errors, report,
                   summary>>

\* the end of "for container in containerlist: download(...)"
DownloadDone ==
    /\ pc = "download"
    /\ ~opts.noFileDownload
    /\ ci > Len(containerlist)
    /\ pc' = "validate"
    /\ UNCHANGED logvars
    /\ UNCHANGED <<opts, containerlist, swift, faults, fs, manifest_exists, manifest,
                   pre, written, ci, itemcounts, lineno, objects_to_dl, count, calls,
                   printed, manlength, counter, errors, report, summary>>

(***************************************************************************)
(* main(): the validation                                                  *)
(***************************************************************************)
\* if noValidate: print '# NOT validating ...'
SkipValidate ==
    /\ pc = "validate"
    /\ opts.noValidate
    /\ pc' = "logs"
    /\ UNCHANGED logvars
    /\ UNCHANGED <<opts, containerlist, swift, faults, fs, manifest_exists, manifest,
                   pre, written, ci, itemcounts, lineno, objects_to_dl, count, calls,
                   printed, manlength, counter, errors, report, summary>>

\* manlength = filelines(FILENAME_MANIFEST); counter = 0; errors = 0
ValidateOpen ==
    /\ pc = "validate"
    /\ ~opts.noValidate
    /\ LET n == Filelines(manifest_exists, manifest)
       IN  /\ pc' = IF n.raised = "" THEN "val_line" ELSE "crashed"
           /\ manlength' = n.value
    /\ counter' = 0
    /\ errors' = 0
    /\ lineno' = 1
    /\ UNCHANGED logvars
    /\ UNCHANGED <<opts, containerlist, swift, faults, fs, manifest_exists, manifest,
                   pre, written, ci, itemcounts, objects_to_dl, count, calls, printed, report, summary>>

\* one pass of the validation loop
ValidateLine ==
    /\ pc = "val_line"
    /\ lineno <= Len(manifest)
    /\ LET md5 == LineMd5(manifest[lineno])
           filename == LineFilename(manifest[lineno])
           verdict == ValidateEntry(fs, md5, filename, opts.noMD5)
       IN  IF verdict = "ok"
           THEN UNCHANGED <<errors, report>>
           ELSE /\ errors' = errors + 1
                /\ report' = Append(report, ValidateMessage(fs, verdict, md5, filename))
    /\ counter' = counter + 1
    /\ lineno' = lineno + 1
    /\ UNCHANGED logvars
    /\ UNCHANGED <<pc, opts, containerlist, swift, faults, fs, manifest_exists,
                   manifest, pre, written, ci, itemcounts, objects_to_dl, count, calls,
                   printed, manlength, summary>>

\* print '# {:28s} {} errors'.format('Completed validating content', errors)
ValidateDone ==
    /\ pc = "val_line"
    /\ lineno > Len(manifest)
    /\ summary' = Append(summary, errors)
    /\ pc' = "logs"
    /\ UNCHANGED logvars
    /\ UNCHANGED <<opts, containerlist, swift, faults, fs, manifest_exists, manifest,
                   pre, written, ci, itemcounts, lineno, objects_to_dl, count, calls,
                   printed, manlength, counter, errors, report>>

\* if noLogDownload: print '# NOT downloading activity and audit logs'
SkipLogs ==
    /\ pc = "logs"
    /\ opts.noLogDownload
    /\ pc' = "done"
    /\ UNCHANGED logvars
    /\ UNCHANGED <<opts, containerlist, swift, faults, fs, manifest_exists, manifest,
                   pre, written, ci, itemcounts, lineno, objects_to_dl, count, calls,
                   printed, manlength, counter, errors, report, summary>>

(***************************************************************************)
(* main(): the activity log                                                *)
(***************************************************************************)
\* genActivityLog, up to its loop: the file is opened for writing and the
\* header row written
LogsOpen ==
    /\ pc = "logs"
    /\ ~opts.noLogDownload
    /\ seen' = {}
    /\ activity' = <<WriteRow(Fieldnames)>>
    /\ li' = 1
    /\ pc' = "log_obj"
    /\ UNCHANGED <<opts, bamf, logorder>>
    /\ UNCHANGED pipevars

\* one pass of "for obj in sorted(objects, ...)": the object is fetched and
\* its rows are read
LogObject ==
    /\ pc = "log_obj"
    /\ li <= Len(bamf)
    /\ LET obj == SortedByName(bamf)[li]
           got == ActivityRows(obj.lines, 1, activity, seen)
       IN  /\ activity' = got.out
           /\ seen' = got.seen
           /\ logorder' = Append(logorder, obj.name)
    /\ li' = li + 1
    /\ UNCHANGED <<pc, opts, bamf>>
    /\ UNCHANGED pipevars

\* genActivityLog returns
LogsDone ==
    /\ pc = "log_obj"
    /\ li > Len(bamf)
    /\ pc' = "done"
    /\ UNCHANGED <<opts, bamf, li, seen, activity, logorder>>
    /\ UNCHANGED pipevars

Next ==
    \/ RemoveManifest
    \/ SkipManifest
    \/ GenManifest
    \/ ManifestDone
    \/ SkipDownload
    \/ DownloadContainer
    \/ DownloadDone
    \/ SkipValidate
    \/ ValidateOpen
    \/ ValidateLine
    \/ ValidateDone
    \/ SkipLogs
    \/ LogsOpen
    \/ LogObject
    \/ LogsDone

Spec == Init /\ [][Next]_vars


(***************************************************************************)
(* Runs over a large manifest kept from an earlier run (-m): the batches   *)
(* of download() fill up                                                   *)
(***************************************************************************)
\* line i of a kept manifest of container a.b; when mixed, every third
\* line is an entry of a container that is not selected.  Every fifth
\* entry is a folder.
BatchManifestLine(i, mixed) ==
    (IF i % 5 = 0 THEN FOLDER ELSE MD5("x")) \o TAB \o
    ManifestPath(IF mixed /\ i % 3 = 0 THEN "zz" ELSE "a.b", "o" \o ToString(i))

BatchManifest(n, mixed) == [i \in 1..n |-> BatchManifestLine(i, mixed)]

\* the manifest lengths around the batch threshold
BatchLengths ==
    { BatchLimit, BatchLimit + 1, 2 * BatchLimit + 1, 2 * BatchLimit + 2 }

\* the account holds a few of the manifest's objects; the others are gone
BatchAccount ==
    [c \in {"a.b"} |-> << Obj("o1", "x"), Obj("o2", "x"), Obj("o4", "x"), Obj("o7", "y") >>]

InitBatch ==
    /\ pc = "remove"
    /\ opts = [noManifest |-> TRUE, noFileDownload |-> FALSE, noValidate |-> FALSE,
               noMD5 |-> FALSE, noLogDownload |-> TRUE]
    /\ containerlist = <<"a.b">>
    /\ swift = BatchAccount
    /\ faults = {"o2"}
    /\ fs = [p \in {ManifestPath("a.b", "o4"), ManifestPath("a.b", "o7")} |-> FileNode("x")]
    /\ \E n \in BatchLengths, mixed \in BOOLEAN :
           pre = [exists |-> TRUE, lines |-> BatchManifest(n, mixed)]
    /\ manifest_exists = pre.exists
    /\ manifest = pre.lines
    /\ bamf = <<>>
    /\ InitLocals
    /\ dl_iterator = <<>>

NextBatch ==
    \/ RemoveManifest
    \/ SkipManifest
    \/ DownloadContainer
    \/ DownloadDone
    \/ ValidateOpen
    \/ ValidateLine
    \/ ValidateDone
    \/ SkipLogs

SpecBatch == InitBatch /\ [][NextBatch]_vars


(***************************************************************************)
(* Runs that only gather the activity log (-m -f -V)                       *)
(***************************************************************************)
InitLog ==
    /\ pc = "remove"
    /\ opts = [noManifest |-> TRUE, noFileDownload |-> TRUE, noValidate |-> TRUE,
               noMD5 |-> FALSE, noLogDownload |-> FALSE]
    /\ containerlist = Containers
    /\ swift \in { [c \in {"a.b", "aXb"} |-> <<>>] }
    /\ faults = {}
    /\ fs = <<>>
    /\ pre = [exists |-> FALSE, lines |-> <<>>]
    /\ manifest_exists = pre.exists
    /\ manifest = pre.lines
    /\ bamf \in LogListings
    /\ InitLocals
    /\ dl_iterator = <<>>

NextLog ==
    \/ RemoveManifest
    \/ SkipManifest
    \/ SkipDownload
    \/ SkipValidate
    \/ LogsOpen
    \/ LogObject
    \/ LogsDone

SpecLog == InitLog /\ [][NextLog]_vars


(***************************************************************************)
(* Runs that only build the manifest (-f -V -l), over the whole catalogue  *)
(***************************************************************************)
InitManifest ==
    /\ pc = "remove"
    /\ opts \in { o \in Options : o.noFileDownload /\ o.noValidate /\ o.noLogDownload }
    /\ containerlist \in ContainerLists
    /\ swift \in { [c \in {"a.b", "aXb"} |-> IF c = "a.b" THEN l ELSE m] :
                     l \in Listings(Catalogue), m \in { <<>>, <<Obj("a", "y")>> } }
    /\ faults = {}
    /\ fs = <<>>
    /\ pre \in PreManifests(swift, containerlist)
    /\ manifest_exists = pre.exists
    /\ manifest = pre.lines
    /\ bamf = <<>>
    /\ InitLocals
    /\ dl_iterator = <<>>

NextManifest ==
    \/ RemoveManifest
    \/ SkipManifest
    \/ GenManifest
    \/ ManifestDone
    \/ SkipDownload
    \/ SkipValidate
    \/ SkipLogs

SpecManifest == InitManifest /\ [][NextManifest]_vars


(***************************************************************************)
(* Runs that build the manifest (-f -V -l) and are started again on the    *)
(* unchanged account, over the files the run before left                   *)
(***************************************************************************)
InitRebuild ==
    /\ pc = "remove"
    /\ opts = [noManifest |-> FALSE, noFileDownload |-> TRUE, noValidate |-> TRUE,
               noMD5 |-> FALSE, noLogDownload |-> TRUE]
    /\ containerlist \in ContainerLists
    /\ swift \in { [c \in {"a.b", "aXb"} |-> IF c = "a.b" THEN l ELSE m] :
                     l \in Listings(Catalogue), m \in { <<>>, <<Obj("a", "y")>> } }
    /\ faults = {}
    /\ fs = <<>>
    /\ pre = [exists |-> FALSE, lines |-> <<>>]
    /\ manifest_exists = pre.exists
    /\ manifest = pre.lines
    /\ bamf = <<>>
    /\ InitLocals
    /\ dl_iterator = <<>>

\* main() is started again with the same options: it finds the manifest
\* file of the run before, and its locals are new
Rerun ==
    /\ pc = "done"
    /\ pc' = "remove"
    /\ pre' = [exists |-> manifest_exists, lines |-> manifest]
    /\ written' = <<>>
    /\ ci' = 1
    /\ itemcounts' = <<>>
    /\ lineno' = 1
    /\ objects_to_dl' = <<>>
    /\ count' = 0
    /\ calls' = <<>>
    /\ printed' = <<>>
    /\ manlength' = 0
    /\ counter' = 0
    /\ errors' = 0
    /\ report' = <<>>
    /\ summary' = <<>>
    /\ li' = 1
    /\ seen' = {}
    /\ activity' = <<>>
    /\ logorder' = <<>>
    /\ UNCHANGED <<opts, containerlist, swift, faults, fs, manifest_exists, manifest, bamf,
                   dl_iterator>>

NextRebuild ==
    \/ RemoveManifest
    \/ GenManifest
    \/ ManifestDone
    \/ SkipDownload
    \/ SkipValidate
    \/ SkipLogs
    \/ Rerun

SpecRebuild == InitRebuild /\ [][NextRebuild]_vars


(***************************************************************************)
(* do_download's loop over the results a bulk download may yield           *)
(***************************************************************************)
\* the most results of one bulk download
MaxResults == 2

\* the response descriptors of a result: none was received, or a status
\* and a reason
ResponseDicts ==
    { <<>>, [status |-> 200, reason |-> "OK"], [status |-> 304, reason |-> "Not Modified"],
      [status |-> 304, reason |-> "not modified"], [status |-> 404, reason |-> "Not Found"],
      [status |-> 503, reason |-> "Service Unavailable"], [status |-> 200, reason |-> ""] }

\* the results ss.download may yield for an object
Results ==
    { Result(success, o, response_dict, error) :
        success \in BOOLEAN, o \in {"a"}, response_dict \in ResponseDicts,
        error \in {"", "ClientException"} }

InitClassify ==
    /\ pc = "do_download"
    /\ opts = [noManifest |-> TRUE, noFileDownload |-> FALSE, noValidate |-> TRUE,
               noMD5 |-> FALSE, noLogDownload |-> TRUE]
    /\ containerlist = <<"a.b">>
    /\ swift = [c \in {"a.b"} |-> <<>>]
    /\ faults = {}
    /\ fs = <<>>
    /\ pre = [exists |-> FALSE, lines |-> <<>>]
    /\ manifest_exists = pre.exists
    /\ manifest = pre.lines
    /\ bamf = <<>>
    /\ InitLocals
    /\ dl_iterator \in UNION { [1..n -> Results] : n \in 1..MaxResults }

\* one pass of "for result in dl_iterator": the if / elif chain prints the
\* outcome of the next result
ClassifyResult ==
    /\ pc = "do_download"
    /\ Len(printed) < Len(dl_iterator)
    /\ printed' = Append(printed, DoDownloadPrint(dl_iterator[Len(printed) + 1]))
    /\ UNCHANGED <<pc, opts, containerlist, swift, faults, fs, manifest_exists, manifest,
                   pre, written, ci, itemcounts, lineno, objects_to_dl, count, calls,
                   manlength, counter, errors, report, summary,
                   bamf, li, seen, activity, logorder, dl_iterator>>

\* the loop ends and do_download returns
ClassifyReturn ==
    /\ pc = "do_download"
    /\ Len(printed) = Len(dl_iterator)
    /\ pc' = "done"
    /\ UNCHANGED <<opts, containerlist, swift, faults, fs, manifest_exists, manifest,
                   pre, written, ci, itemcounts, lineno, objects_to_dl, count, calls,
                   printed, manlength, counter, errors, report, summary,
                   bamf, li, seen, activity, logorder, dl_iterator>>

NextClassify ==
    \/ ClassifyResult
    \/ ClassifyReturn

SpecClassify == InitClassify /\ [][NextClassify]_vars


(***************************************************************************)
(* The claims                                                              *)
(***************************************************************************)
\* main() is past its download phase
DownloadsOver == pc \in {"validate", "val_line", "logs", "log_obj", "done"}

\* download(containerlist[k]) has returned
DownloadReturned(k) ==
    /\ ~opts.noFileDownload
    /\ \/ DownloadsOver
       \/ pc = "download" /\ ci > k

\* the validation loop has ended and its summary line is printed
ValidationOver == pc \in {"logs", "log_obj", "done"} /\ ~opts.noValidate

\* the path is the literal text data/<container>/ and a relative name
Belongs(container, filename) ==
    /\ StartsWith(filename, "data/" \o container \o "/")
    /\ Len(filename) > Len("data/" \o container \o "/")

RelativeName(container, filename) ==
    SubSeq(filename, Len("data/" \o container \o "/") + 1, Len(filename))

\* the relative names of the manifest entries of a container, in manifest order
EntriesOf(container) ==
    LET sel == SelectSeq(manifest, LAMBDA l : Belongs(container, LineFilename(l)))
    IN  [i \in 1..Len(sel) |-> RelativeName(container, LineFilename(sel[i]))]

\* the batches passed to do_download for a container, in invocation order
BatchesOf(container) ==
    LET sel == SelectSeq(calls, LAMBDA call : call.container = container)
    IN  [i \in 1..Len(sel) |-> sel[i].objects]

RECURSIVE Concat(_)
Concat(seqs) == IF seqs = <<>> THEN <<>> ELSE Head(seqs) \o Concat(Tail(seqs))

\* C1: in quick mode (-q) no checksum mismatch is reported and none is
\* counted: every error of the validation is a missing file.
C1_QuickSkipsChecksum ==
    opts.noMD5 =>
        /\ \A k \in 1..Len(report) : report[k].kind # "mismatch"
        /\ ValidationOver =>
               summary = << Cardinality({ i \in 1..Len(manifest) :
                                ~Exists(fs, LineFilename(manifest[i])) }) >>

\* the case of C2: the download of the one container has just returned,
\* over a manifest of exactly 2001 entries, all of that container
C2_Case ==
    /\ pc = "validate"
    /\ ~opts.noFileDownload
    /\ Len(containerlist) = 1
    /\ Len(manifest) = 2001
    /\ \A i \in 1..Len(manifest) : Belongs(containerlist[1], LineFilename(manifest[i]))

BatchSizes(container) ==
    LET b == BatchesOf(container) IN [i \in 1..Len(b) |-> Len(b[i])]

\* C2 as stated: 2001 entries of one container are downloaded in exactly 3
\* invocations of do_download, of 1000, 1000 and 1 names.
C2_ThreeBatches == C2_Case => BatchSizes(containerlist[1]) = <<1000, 1000, 1>>

\* C2 amended: 2001 entries of one container are downloaded in exactly 2
\* invocations of do_download, of 1001 and 1000 names: a batch is handed
\* over when it holds more than 1000 names.
C2_TwoBatches == C2_Case => BatchSizes(containerlist[1]) = <<1001, 1000>>

C2_Witness == C2_Case /\ Len(calls) = 2

\* C3: once download(container) has returned, the batches it passed to
\* do_download, concatenated in invocation order, are the relative names of
\* the manifest entries of that container in manifest order, and no batch
\* is empty.
C3_BatchesCoverEntries ==
    \A k \in 1..Len(containerlist) :
        DownloadReturned(k) =>
            /\ Concat(BatchesOf(containerlist[k])) = EntriesOf(containerlist[k])
            /\ \A j \in 1..Len(calls) : calls[j].objects # <<>>

\* every object of every selected container is a file of the data
\* directory with the bytes of the object
StoredExactly(files) ==
    \A k \in 1..Len(containerlist) :
        \A i \in 1..Len(swift[containerlist[k]]) :
            LET obj == swift[containerlist[k]][i]
                path == ManifestPath(containerlist[k], obj.name)
            IN  IsFile(files, path) /\ files[path].bytes = obj.content

\* the data directory is StoredExactly but for the bytes of the file at path
StoredButFor(files, path) ==
    /\ IsFile(files, path)
    /\ \E bytes \in {"", "x", "y"} :
           /\ bytes # files[path].bytes
           /\ StoredExactly([files EXCEPT ![path] = FileNode(bytes)])

\* the manifest checksum of the entry of a path is not the folder sentinel
NotFolderEntry(path) ==
    \E i \in 1..Len(manifest) :
        /\ SubSeq(manifest[i], Len(manifest[i]) - Len(path) + 1, Len(manifest[i])) = path
        /\ LineMd5(manifest[i]) # FOLDER

\* the run built its manifest and validated it in non-quick mode, and the
\* validation has printed its summary
C4_Case ==
    /\ ~opts.noManifest /\ ~opts.noMD5
    /\ Len(containerlist) > 0
    /\ ValidationOver

\* C4: round trip.  With the bytes of every listed object stored at its
\* path, the validation of the manifest just built reports 0 errors; with
\* the bytes of one file that is not a folder entry changed, it reports
\* exactly 1 error, a checksum mismatch that names the file.
C4_RoundTrip ==
    C4_Case =>
        /\ StoredExactly(fs) => summary = <<0>>
        /\ \A path \in DOMAIN fs :
               StoredButFor(fs, path) /\ NotFolderEntry(path) =>
                   /\ summary = <<1>>
                   /\ Len(report) = 1
                   /\ report[1].kind = "mismatch"
                   /\ report[1].filename = path

\* the part of a name after its last path separator
LastSegment(name) ==
    LET seps == { i \in 1..Len(name) : Char(name, i) = "/" }
    IN  IF seps = {} THEN name
        ELSE SubSeq(name, (CHOOSE i \in seps : \A j \in seps : j <= i) + 1, Len(name))

\* the name holds the marker
HasMarker(name) == \E i \in 1..(Len(name) - 3) : SubSeq(name, i, i + 3) = "!CB_"

\* the last segment of the name holds the marker and a character after it
IsSegmentDuplicate(name) ==
    LET last == LastSegment(name)
    IN  \E i \in 1..(Len(last) - 4) : SubSeq(last, i, i + 3) = "!CB_"

\* the two fields of a manifest line as written: the text before its first
\* tab and the text after it
FieldChecksum(line) == SubSeq(line, 1, IndexOf(line, TAB) - 1)
FieldPath(line) == SubSeq(line, IndexOf(line, TAB) + 1, Len(line))

\* the lines this run wrote for an object of a container
LinesFor(container, name) ==
    { j \in 1..Len(written) : FieldPath(written[j]) = "data/" \o container \o "/" \o name }

\* genManifest(containerlist[k]) has returned
ManifestBuilt(k) ==
    /\ ~opts.noManifest
    /\ \/ pc = "manifest" /\ ci > k
       \/ pc \notin {"remove", "manifest"}

\* C5: once genManifest has returned for a container, every listed object
\* that is not a segment duplicate has a manifest line, and the checksum
\* field of its line is '-FOLDER-' when its declared size is 0, whatever
\* checksum the listing reports, and the listing's checksum otherwise.
C5_FolderChecksum ==
    \A k \in 1..Len(containerlist) :
        ManifestBuilt(k) =>
            \A i \in 1..Len(swift[containerlist[k]]) :
                LET obj == swift[containerlist[k]][i]
                    at == LinesFor(containerlist[k], obj.name)
                IN  ~IsSegmentDuplicate(obj.name) =>
                        /\ at # {}
                        /\ \A j \in at :
                               FieldChecksum(written[j]) =
                                   IF obj.bytes = 0 THEN FOLDER ELSE obj.hash

\* a manifest was built from a listing with an object of size 0, whose
\* listing checksum is not the sentinel, and an object of another size
C5_Witness ==
    /\ Len(containerlist) > 0
    /\ ManifestBuilt(1)
    /\ \E i, j \in 1..Len(swift[containerlist[1]]) :
           LET a == swift[containerlist[1]][i]
               b == swift[containerlist[1]][j]
           IN  /\ a.bytes = 0 /\ a.hash # FOLDER /\ ~IsSegmentDuplicate(a.name)
               /\ b.bytes # 0 /\ ~IsSegmentDuplicate(b.name)
               /\ \E m, n \in 1..Len(written) :
                      /\ FieldChecksum(written[m]) = FOLDER
                      /\ FieldChecksum(written[n]) = b.hash

\* C6: once genManifest has returned for a container, no manifest line is
\* written for a listed object whose last path segment holds the marker
\* '!CB_' and a character after it, and the object is not counted; an
\* object whose name holds the marker only before a later '/' has exactly
\* one line.
C6_SegmentDuplicates ==
    \A k \in 1..Len(containerlist) :
        ManifestBuilt(k) =>
            LET c == containerlist[k]
                objects == swift[c]
            IN  /\ \A i \in 1..Len(objects) :
                       IsSegmentDuplicate(objects[i].name) =>
                           LinesFor(c, objects[i].name) = {}
                /\ \A i \in 1..Len(objects) :
                       HasMarker(objects[i].name) /\ ~HasMarker(LastSegment(objects[i].name)) =>
                           Cardinality(LinesFor(c, objects[i].name)) = 1
                /\ itemcounts[k].container = c
                /\ itemcounts[k].linecount =
                       Cardinality({ i \in 1..Len(objects) :
                                       ~IsSegmentDuplicate(objects[i].name) })

\* a manifest was built from a listing with a segment duplicate and an
\* object with the marker in the middle of its path
C6_Witness ==
    /\ Len(containerlist) > 0
    /\ ManifestBuilt(1)
    /\ \E i, j \in 1..Len(swift[containerlist[1]]) :
           LET a == swift[containerlist[1]][i].name
               b == swift[containerlist[1]][j].name
           IN  /\ IsSegmentDuplicate(a)
               /\ HasMarker(b) /\ ~HasMarker(LastSegment(b))
               /\ itemcounts[1].linecount = 1

\* C7: the relative name of a manifest entry whose checksum is the folder
\* sentinel is in no batch passed to do_download for its container.
C7_FoldersNotDownloaded ==
    \A i \in 1..Len(manifest) :
        LineMd5(manifest[i]) = FOLDER =>
            \A j \in 1..Len(calls) :
                Belongs(calls[j].container, LineFilename(manifest[i])) =>
                    \A n \in 1..Len(calls[j].objects) :
                        calls[j].objects[n] #
                            RelativeName(calls[j].container, LineFilename(manifest[i]))

\* the place of log object k among the listed objects, by name
Rank(k) == Cardinality({ j \in 1..Len(bamf) : StrLess(bamf[j].name, bamf[k].name) }) + 1

\* the log objects from the least name to the greatest
ByRank == [r \in 1..Len(bamf) |-> bamf[CHOOSE k \in 1..Len(bamf) : Rank(k) = r]]

\* the rows of the given log objects, one object after the other
RECURSIVE RowsOf(_)
RowsOf(objects) ==
    IF objects = <<>> THEN <<>>
    ELSE [k \in 1..Len(Head(objects).lines) |-> ActivityRow(Head(objects).lines[k])]
         \o RowsOf(Tail(objects))

\* the rows that have a request identifier
Identified == SelectSeq(RowsOf(ByRank), LAMBDA r : Len(r) > RequestIdIndex)

RequestId(r) == r[RequestIdIndex + 1]

\* the rows from index p on whose identifier no earlier row has
RECURSIVE FirstSeen(_, _)
FirstSeen(rows, p) ==
    IF p > Len(rows) THEN <<>>
    ELSE (IF \A q \in 1..(p - 1) : RequestId(rows[q]) # RequestId(rows[p])
          THEN <<rows[p]>> ELSE <<>>) \o FirstSeen(rows, p + 1)

\* the cells of an output line
OutputRow(line) == Split(line, ",")

\* C8: when genActivityLog has returned, the log objects were processed
\* from the least name to the greatest, and the activity file holds the
\* header and then, for each distinct request identifier (cell 5 of a
\* row), exactly one row: the first row with that identifier in processing
\* order, with the cells the reader gave in their order; a later row with
\* the same identifier is not written.
C8_FirstSeenRows ==
    pc = "done" /\ ~opts.noLogDownload =>
        /\ logorder = [r \in 1..Len(bamf) |-> ByRank[r].name]
        /\ Len(activity) = 1 + Len(FirstSeen(Identified, 1))
        /\ activity[1] = WriteRow(Fieldnames)
        /\ \A n \in 1..Len(FirstSeen(Identified, 1)) :
               OutputRow(activity[n + 1]) = FirstSeen(Identified, 1)[n]
        /\ \A m, n \in 2..Len(activity) :
               m # n => RequestId(OutputRow(activity[m])) # RequestId(OutputRow(activity[n]))

\* genActivityLog has returned over two log objects listed out of name
\* order, where the object of the greater name repeats a request identifier
\* of the other in a row of different cells
C8_Witness ==
    /\ pc = "done" /\ ~opts.noLogDownload
    /\ Len(bamf) = 2
    /\ StrLess(bamf[2].name, bamf[1].name)
    /\ \E p, q \in 1..Len(Identified) :
           /\ p < q
           /\ RequestId(Identified[p]) = RequestId(Identified[q])
           /\ Identified[p] # Identified[q]
           /\ Identified[p] \in { ActivityRow(l) : l \in { bamf[2].lines[k] : k \in 1..Len(bamf[2].lines) } }
           /\ Identified[q] \in { ActivityRow(l) : l \in { bamf[1].lines[k] : k \in 1..Len(bamf[1].lines) } }
    /\ Len(activity) = 2

\* the relative names download(container) selects from the manifest, in
\* manifest order
SelectedNames(container) ==
    LET sel == SelectSeq(manifest, LAMBDA l : RegexpMatch(container, LineFilename(l)))
    IN  [i \in 1..Len(sel) |-> Group2(container, LineFilename(sel[i]))]

\* every object of every batch, in invocation order
AllBatched == Concat([j \in 1..Len(calls) |-> calls[j].objects])

\* the manifest entries the validator counts as errors: the path is
\* neither a directory nor a file, or it is a file whose entry is not a
\* folder entry and whose bytes have another digest
BadEntries ==
    { i \in 1..Len(manifest) :
        LET md5 == LineMd5(manifest[i])
            filename == LineFilename(manifest[i])
        IN  \/ ~Exists(fs, filename)
            \/ /\ IsFile(fs, filename)
               /\ md5 # FOLDER
               /\ MD5(fs[filename].bytes) # md5 }

\* C9: per-object failures never abort the run.  When the download phase
\* is over, every container was given every batch of its selected
\* entries, and every object of every batch has a printed outcome, the
\* ones after a Failed or Error result included; when the validation is
\* over, every manifest entry was examined and the summary is the number
\* of missing and mismatching entries; and a run that stops does so before
\* any object was downloaded or examined.
C9_FailuresDoNotAbort ==
    /\ pc = "validate" /\ ~opts.noFileDownload =>
           /\ \A k \in 1..Len(containerlist) :
                  Concat(BatchesOf(containerlist[k])) = SelectedNames(containerlist[k])
           /\ Len(printed) = Len(AllBatched)
           /\ \A n \in 1..Len(printed) :
                  /\ printed[n].outcome \in {"OK", "Unmodified", "Failed", "Error"}
                  /\ printed[n].outcome # "Error" => printed[n].object = AllBatched[n]
    /\ ValidationOver =>
           /\ counter = Len(manifest)
           /\ summary = <<errors>>
           /\ errors = Cardinality(BadEntries)
           /\ Len(report) = errors
    /\ pc = "crashed" => calls = <<>> /\ printed = <<>> /\ counter = 0 /\ report = <<>>

\* a run in which a Failed or Error result was followed by another result
\* of the same batch and by another batch, and in which the validation
\* went on after an entry in error and printed its summary
C9_Witness ==
    /\ ValidationOver /\ ~opts.noFileDownload
    /\ Len(calls) = 2
    /\ Len(calls[1].objects) >= 2
    /\ printed[1].outcome \in {"Failed", "Error"}
    /\ printed[2].outcome = "OK"
    /\ Len(report) > 0
    /\ report[1].filename = LineFilename(manifest[1])
    /\ counter > 1

\* C10: without -m / -n the manifest of an earlier run is gone before the
\* first container is listed, and from then on the manifest holds the
\* lines this run has written and no other; with -m / -n the manifest file
\* is what it was when the run began, and the run writes no manifest line.
C10_ManifestFrame ==
    /\ ~opts.noManifest =>
           /\ pc = "manifest" /\ itemcounts = <<>> => ~manifest_exists
           /\ pc # "remove" => manifest = written
    /\ opts.noManifest =>
           /\ manifest_exists = pre.exists
           /\ manifest = pre.lines
           /\ written = <<>>

\* a run without -m / -n that began with a manifest of an earlier run and
\* has built its own
C10_Witness ==
    /\ ~opts.noManifest
    /\ pre.exists /\ pre.lines # <<>>
    /\ pc = "download"
    /\ written # <<>>
    /\ \A i \in 1..Len(pre.lines) : \A j \in 1..Len(manifest) : manifest[j] # pre.lines[i]

\* the paths of the objects of the selected containers that are not segment
\* duplicates, container after container from index k on, each in the
\* order of its listing
RECURSIVE ListedPaths(_)
ListedPaths(k) ==
    IF k > Len(containerlist) THEN <<>>
    ELSE LET c == containerlist[k]
             kept == SelectSeq(swift[c], LAMBDA obj : ~IsSegmentDuplicate(obj.name))
         IN  [i \in 1..Len(kept) |-> "data/" \o c \o "/" \o kept[i].name]
             \o ListedPaths(k + 1)

\* C11: a build started over the manifest file that a build of the same
\* unchanged listings left, and that it deletes first, ends with the same
\* manifest file, line for line; and the lines of a built manifest are in
\* the order of the listing.
C11_RebuildIdentical ==
    pc \notin {"remove", "manifest"} =>
        /\ pre.exists => manifest_exists /\ manifest = pre.lines
        /\ [j \in 1..Len(manifest) |-> FieldPath(manifest[j])] = ListedPaths(1)

\* the second build of a container with two objects that get a line has
\* ended
C11_Witness ==
    /\ pc = "download"
    /\ pre.exists
    /\ Len(pre.lines) >= 2
    /\ written = pre.lines
    /\ \E k \in 1..Len(containerlist) : itemcounts[k].linecount >= 2

\* the place of a container in containerlist
ContainerIndex(c) == CHOOSE k \in 1..Len(containerlist) : containerlist[k] = c

\* the manifest builds so far are those of the first containers of
\* containerlist, in its order, and the bulk downloads so far follow that
\* order too
InContainerOrder ==
    /\ Len(itemcounts) <= Len(containerlist)
    /\ \A k \in 1..Len(itemcounts) : itemcounts[k].container = containerlist[k]
    /\ \A j \in 1..Len(calls) : \E k \in 1..Len(containerlist) : calls[j].container = containerlist[k]
    /\ \A i, j \in 1..Len(calls) :
           i < j => ContainerIndex(calls[i].container) <= ContainerIndex(calls[j].container)

\* a bulk download was invoked only after the build of every container
BuildsBeforeDownloads ==
    calls # <<>> /\ ~opts.noManifest => Len(itemcounts) = Len(containerlist)

\* a step that invokes a bulk download or writes a downloaded file
DownloadStep == calls' # calls \/ fs' # fs \/ printed' # printed

\* a step that builds a part of the manifest
BuildStep == itemcounts' # itemcounts \/ written' # written

\* a step in which the validation reads a manifest entry
ValidateStep == counter' # counter

\* C12: in every run the manifest build of every selected container is
\* over before the first bulk download, and no build step follows a
\* download; every download is over before the validation reads its first
\* manifest entry, and none follows; within each phase the containers are
\* taken in the order of the container list.
C12_PhaseOrder ==
    /\ [](InContainerOrder /\ BuildsBeforeDownloads)
    /\ [][ /\ BuildStep => calls = <<>> /\ counter = 0 /\ pc = "manifest"
           /\ DownloadStep => counter = 0 /\ pc = "download"
                               /\ (~opts.noManifest => Len(itemcounts) = Len(containerlist))
           /\ ValidateStep => pc = "val_line" /\ ~BuildStep /\ ~DownloadStep
           /\ counter > 0 => ~BuildStep /\ ~DownloadStep ]_vars

\* a run over two containers that built both parts of the manifest, then
\* downloaded from both, and whose validation has read an entry
C12_Witness ==
    /\ ~opts.noManifest /\ ~opts.noFileDownload
    /\ Len(containerlist) = 2
    /\ Len(itemcounts) = 2
    /\ Len(calls) = 2
    /\ calls[1].container = containerlist[1]
    /\ calls[2].container = containerlist[2]
    /\ counter > 0

\* the outcomes the statement allows for a result
AllowedOutcomes(r) ==
    { o \in {"OK", "Error", "Unmodified", "Failed"} :
        \/ o = "OK" /\ r.success
        \/ o = "Error" /\ ~r.success /\ "reason" \notin DOMAIN r.response_dict
        \/ o = "Unmodified" /\ ~r.success /\ "reason" \in DOMAIN r.response_dict
              /\ r.response_dict.reason \in {"Not Modified", "OK"}
        \/ o = "Failed" /\ ~r.success /\ "reason" \in DOMAIN r.response_dict
              /\ r.response_dict.reason \notin {"Not Modified", "OK"} }

\* C13: do_download prints for each result exactly one outcome: OK when
\* the success flag is true; otherwise Error, with the error message, when
\* the response descriptor has no reason; otherwise Unmodified when the
\* reason is 'Not Modified' or 'OK'; otherwise Failed, with the status and
\* the reason of the response.
C13_Classification ==
    /\ Len(printed) <= Len(dl_iterator)
    /\ pc = "done" => Len(printed) = Len(dl_iterator)
    /\ \A n \in 1..Len(printed) :
           LET r == dl_iterator[n]
           IN  /\ AllowedOutcomes(r) = {printed[n].outcome}
               /\ printed[n].outcome = "Failed" =>
                      /\ printed[n].object = r.object
                      /\ printed[n].text = <<r.response_dict.status, r.response_dict.reason>>
               /\ printed[n].outcome = "Error" => printed[n].text = <<r.error>>
               /\ printed[n].outcome \in {"OK", "Unmodified"} => printed[n].object = r.object

\* do_download has returned after a failure with the reason 'OK' and a
\* failure with another reason
C13_Witness ==
    /\ pc = "done"
    /\ Len(dl_iterator) = 2
    /\ ~dl_iterator[1].success /\ dl_iterator[1].response_dict = [status |-> 200, reason |-> "OK"]
    /\ printed[1].outcome = "Unmodified"
    /\ ~dl_iterator[2].success /\ dl_iterator[2].response_dict = [status |-> 404, reason |-> "Not Found"]
    /\ printed[2].outcome = "Failed"

\* C14: every name download(container) passes to do_download is the
\* relative name of a manifest entry whose path is the literal text
\* data/<container>/ followed by that name, and every such entry of the
\* container is passed once download(container) has returned: no entry
\* written for another container is selected.
C14_SelectsOwnEntries ==
    /\ \A j \in 1..Len(calls) :
           \A n \in 1..Len(calls[j].objects) :
               \E i \in 1..Len(manifest) :
                   LineFilename(manifest[i]) =
                       "data/" \o calls[j].container \o "/" \o calls[j].objects[n]
    /\ \A k \in 1..Len(containerlist) :
           DownloadReturned(k) =>
               \A i \in 1..Len(manifest) :
                   Belongs(containerlist[k], LineFilename(manifest[i])) =>
                       \E j \in 1..Len(calls) :
                           /\ calls[j].container = containerlist[k]
                           /\ \E n \in 1..Len(calls[j].objects) :
                                  calls[j].objects[n] =
                                      RelativeName(containerlist[k], LineFilename(manifest[i]))

\* C15: the validation of a manifest file that exists does not raise: it
\* ends with its summary line, and for an empty manifest the summary is 0
\* errors.
C15_ValidationCompletes ==
    /\ pc = "crashed" => ~manifest_exists
    /\ ValidationOver /\ manifest = <<>> => summary = <<0>>


=============================================================================
